---- MODULE Spec2Model ----
(***************************************************************************)
(* Model of flight_booking_api.py: three HTTP endpoints (search_flight,    *)
(* select_seat, buy_ticket) that delegate to LLM agents.  The model's      *)
(* replies are nondeterministic inputs; the agent runs follow the source's *)
(* configuration (retries, usage, usage_limits) and the output validator.  *)
(***************************************************************************)
EXTENDS Naturals, Sequences, FiniteSets, TLC

VARIABLES
    flights_web_page,   \* module global: the flights listed on the page text
    usage_limits,       \* module global: UsageLimits(request_limit=...)
    inbox,              \* per connection: the SearchRequest sent, or None
    search,             \* per connection: the state of its search_flight call
    seat,               \* the state of one select_seat call
    buy                 \* the state of one buy_ticket call

vars == <<flights_web_page, usage_limits, inbox, search, seat, buy>>

------------------------------------------------------------------------------
(* Bounds of the model.                                                     *)

NumAirports == 2
NumDates == 2

AirportList == <<"SFO", "ANC", "JFK", "LAX">>
DateList == <<"2025-01-10", "2025-01-11", "2025-01-12", "2025-01-13">>

Airports == {AirportList[i] : i \in 1..NumAirports}
Dates == {DateList[i] : i \in 1..NumDates}

\* Strings that are searched for substrings are sequences of characters.
FlightNumbers == {<<"A", "F", "1", "2", "3">>, <<"B", "A", "7">>}
Prices == {99}

Slots == {"c1", "c2"}

None == [kind |-> "None"]

------------------------------------------------------------------------------
(* Models (lines 22-44, 104-110).                                           *)

FlightDetails ==
    [kind : {"FlightDetails"}, flight_number : FlightNumbers, price : Prices,
     origin : Airports, destination : Airports, date : Dates]

NoFlightFound == [kind |-> "NoFlightFound"]

Failed == [kind |-> "Failed"]

SearchRequest == [origin : Airports, destination : Airports, date : Dates]

Deps(page, req) ==
    [web_page_text |-> page, req_origin |-> req.origin,
     req_destination |-> req.destination, req_date |-> req.date]

\* The page lists one flight per route and date.
NumberOf(o) == IF o = AirportList[1] THEN <<"A", "F", "1", "2", "3">> ELSE <<"B", "A", "7">>

WebPage ==
    {f \in FlightDetails : f.flight_number = NumberOf(f.origin)}

------------------------------------------------------------------------------
(* Agent configuration.                                                      *)

search_agent_retries == 4

request_limit == 15

seat_preference_agent_retries == 1

------------------------------------------------------------------------------
(* Usage accounting.  search_flight creates one Usage() per call (line 120) *)
(* and hands it to search_agent.run; every model request of the run adds    *)
(* one to its request count.                                                *)

\* Mutant: the request is not counted on the run's usage.
incr_lost(S, c) == S

\* Mutant: one module-level Usage() counts the requests of every call.
incr_global(S, c) == [d \in DOMAIN S |-> [S[d] EXCEPT !.usage = @ + 1]]

incr(S, c) == [S EXCEPT ![c].usage = @ + 1]

\* UsageLimits.check_before_request, with the limits passed at lines 125.
limit_reached(limits, usage) == usage >= limits.request_limit

\* Mutant: one retry too many before the run gives up.
retries_exhausted_late(retries) == retries > search_agent_retries

\* retries=4 (line 51): a rejected output is retried while fewer than 4
\* retries were made; the next rejection raises out of search_agent.run.
retries_exhausted(retries) == retries >= search_agent_retries

------------------------------------------------------------------------------
(* validate_output (lines 79-94).  The ModelRetry message is the list of    *)
(* lines that '\n'.join(errors) joins, one element per line.                *)

\* Mutant: the date is not compared.
validate_output_no_date(deps, output) ==
    IF output.kind = "NoFlightFound"
    THEN [raised |-> FALSE, value |-> output, message |-> <<>>]
    ELSE LET e1 == IF output.origin # deps.req_origin
                   THEN <<"Origin mismatch: " \o output.origin>> ELSE <<>>
             e2 == IF output.destination # deps.req_destination
                   THEN <<"Destination mismatch: " \o output.destination>> ELSE <<>>
             errors == e1 \o e2
         IN  IF errors # <<>>
             THEN [raised |-> TRUE, value |-> None, message |-> errors]
             ELSE [raised |-> FALSE, value |-> output, message |-> <<>>]

\* Mutant: NoFlightFound is compared like a flight that matches nothing.
validate_output_strict(deps, output) ==
    IF output.kind = "NoFlightFound"
    THEN [raised |-> TRUE, value |-> None, message |-> <<"No flight">>]
    ELSE IF \/ output.origin # deps.req_origin
            \/ output.destination # deps.req_destination
            \/ output.date # deps.req_date
    THEN [raised |-> TRUE, value |-> None, message |-> <<"Mismatch">>]
    ELSE [raised |-> FALSE, value |-> output, message |-> <<>>]

\* Mutant: an elif chain, which reports the first mismatch only.
validate_output_first_only(deps, output) ==
    IF output.kind = "NoFlightFound"
    THEN [raised |-> FALSE, value |-> output, message |-> <<>>]
    ELSE LET errors ==
                 IF output.origin # deps.req_origin
                 THEN <<"Origin mismatch: " \o output.origin>>
                 ELSE IF output.destination # deps.req_destination
                 THEN <<"Destination mismatch: " \o output.destination>>
                 ELSE IF output.date # deps.req_date
                 THEN <<"Date mismatch: " \o output.date>>
                 ELSE <<>>
         IN  IF errors # <<>>
             THEN [raised |-> TRUE, value |-> None, message |-> errors]
             ELSE [raised |-> FALSE, value |-> output, message |-> <<>>]

validate_output(deps, output) ==
    IF output.kind = "NoFlightFound"
    THEN [raised |-> FALSE, value |-> output, message |-> <<>>]
    ELSE LET e1 == IF output.origin # deps.req_origin
                   THEN <<"Origin mismatch: " \o output.origin>> ELSE <<>>
             e2 == IF output.destination # deps.req_destination
                   THEN <<"Destination mismatch: " \o output.destination>> ELSE <<>>
             e3 == IF output.date # deps.req_date
                   THEN <<"Date mismatch: " \o output.date>> ELSE <<>>
             errors == e1 \o e2 \o e3
         IN  IF errors # <<>>
             THEN [raised |-> TRUE, value |-> None, message |-> errors]
             ELSE [raised |-> FALSE, value |-> output, message |-> <<>>]

------------------------------------------------------------------------------
(* Responses of the search endpoint.                                        *)

\* Lines 127-129: what search_flight does with result.output.
search_flight_response(output) ==
    IF output.kind = "NoFlightFound"
    THEN [status |-> 404, body |-> "No flight found"]
    ELSE [status |-> 200, body |-> output]

\* Lines 121-126 sit in no try block: an exception raised by search_agent.run
\* (retries exceeded, usage limit exceeded) leaves the handler unhandled.
unhandled_error == [status |-> 500, body |-> "Internal Server Error"]

------------------------------------------------------------------------------
(* The search workflow of one connection c.                                 *)

IdleSearch ==
    [phase |-> "idle", deps |-> None, usage |-> 0, retries |-> 0,
     output |-> None, feedback |-> <<>>, result |-> None, response |-> None,
     only_wrong_origin |-> TRUE]

\* Lines 113-126: build Deps, create Usage(), start search_agent.run.
search_flight(c) ==
    /\ inbox[c] # None
    /\ search[c].phase = "idle"
    /\ search' = [search EXCEPT ![c] =
                    [@ EXCEPT !.phase = "searching",
                              !.deps = Deps(flights_web_page, inbox[c]),
                              !.usage = 0]]
    /\ UNCHANGED <<flights_web_page, usage_limits, inbox, seat, buy>>

\* The next model request of the run would pass request_limit: the run raises
\* UsageLimitExceeded.
usage_limit_exceeded(c) ==
    /\ search[c].phase = "searching"
    /\ limit_reached(usage_limits, search[c].usage)
    /\ search' = [search EXCEPT ![c] =
                    [@ EXCEPT !.phase = "exhausted", !.response = unhandled_error]]
    /\ UNCHANGED <<flights_web_page, usage_limits, inbox, seat, buy>>

\* A search model request answered by a call of the extract_flights tool.
call_extract_flights(c) ==
    /\ search[c].phase = "searching"
    /\ ~limit_reached(usage_limits, search[c].usage)
    /\ search' = [incr(search, c) EXCEPT ![c].phase = "extracting"]
    /\ UNCHANGED <<flights_web_page, usage_limits, inbox, seat, buy>>

\* Lines 73-77: extraction_agent.run(..., usage=ctx.usage) counts its request
\* on the caller's usage; no usage_limits are passed, so request_limit is not
\* consulted here.
extract_flights(c) ==
    /\ search[c].phase = "extracting"
    /\ search' = [incr(search, c) EXCEPT ![c].phase = "searching"]
    /\ UNCHANGED <<flights_web_page, usage_limits, inbox, seat, buy>>

\* A search model request answered by a final output, then validate_output
\* and, when it accepts, the rest of search_flight (lines 127-129).
final_output(c, out) ==
    /\ search[c].phase = "searching"
    /\ ~limit_reached(usage_limits, search[c].usage)
    /\ LET s == search[c]
           v == validate_output(s.deps, out)
           wrong == /\ s.only_wrong_origin
                    /\ out.kind = "FlightDetails"
                    /\ out.origin # s.deps.req_origin
           seen == [incr(search, c) EXCEPT ![c].output = out,
                                           ![c].feedback = v.message,
                                           ![c].only_wrong_origin = wrong]
       IN  IF ~v.raised
           THEN search' = [seen EXCEPT ![c].phase = "accepted",
                                       ![c].result = v.value,
                                       ![c].response = search_flight_response(v.value)]
           ELSE IF retries_exhausted(s.retries)
           THEN search' = [seen EXCEPT ![c].phase = "exhausted",
                                       ![c].response = unhandled_error]
           ELSE search' = [seen EXCEPT ![c].retries = @ + 1]
    /\ UNCHANGED <<flights_web_page, usage_limits, inbox, seat, buy>>

ModelOutputs == {NoFlightFound} \cup flights_web_page

search_step(c) ==
    \/ search_flight(c)
    \/ usage_limit_exceeded(c)
    \/ call_extract_flights(c)
    \/ extract_flights(c)
    \/ \E out \in ModelOutputs : final_output(c, out)

NextSearch == \E c \in Slots : search_step(c)

------------------------------------------------------------------------------
(* select_seat (lines 131-141) and SeatPreference (lines 32-34).            *)

row_ge == 1
row_le == 30

SeatLetters == {"A", "B", "C", "D", "E", "F"}

\* The values that validate as a SeatPreference.
SeatPreference ==
    [kind : {"SeatPreference"}, row : row_ge..row_le, seat : SeatLetters]

\* What the model may answer before validation: Failed, or a row and a letter,
\* the row up to one outside the range and the letter possibly none of A..F.
SeatOutputs ==
    {Failed} \cup
    [kind : {"SeatPreference"}, row : (row_ge - 1)..(row_le + 1),
     seat : SeatLetters \cup {"G"}]

SeatTexts == {"window seat in row 0", "seat 31A please"}

IdleSeat ==
    [phase |-> "idle", seat_text |-> "", usage |-> 0, retries |-> 0,
     attempts |-> <<>>, response |-> None]

\* Lines 132-138: create Usage(), start seat_preference_agent.run.
select_seat(text) ==
    /\ seat.phase = "idle"
    /\ seat' = [seat EXCEPT !.phase = "parsing", !.seat_text = text, !.usage = 0]
    /\ UNCHANGED <<flights_web_page, usage_limits, inbox, search, buy>>

\* Lines 139-141: what select_seat does with result.output.
select_seat_response(output) ==
    IF output.kind = "Failed"
    THEN [status |-> 400, body |-> "Could not parse seat preference"]
    ELSE [status |-> 200, body |-> output]

\* One model request of seat_preference_agent.run and what follows it.  An
\* answer that does not validate as SeatPreference | Failed is sent back to
\* the model for another try, once (the agent is built with the default
\* number of retries, lines 62-71); after that the run raises.
seat_preference_output(out) ==
    /\ seat.phase = "parsing"
    /\ IF limit_reached(usage_limits, seat.usage)
       THEN seat' = [seat EXCEPT !.phase = "done", !.response = unhandled_error]
       ELSE LET got == [seat EXCEPT !.usage = @ + 1,
                                    !.attempts = Append(@, out)]
            IN  IF out = Failed \/ out \in SeatPreference
                THEN seat' = [got EXCEPT !.phase = "done",
                                         !.response = select_seat_response(out)]
                ELSE IF seat.retries >= seat_preference_agent_retries
                THEN seat' = [got EXCEPT !.phase = "done",
                                         !.response = unhandled_error]
                ELSE seat' = [got EXCEPT !.retries = @ + 1]
    /\ UNCHANGED <<flights_web_page, usage_limits, inbox, search, buy>>

NextSeat ==
    \/ \E text \in SeatTexts : select_seat(text)
    \/ \E out \in SeatOutputs : seat_preference_output(out)

------------------------------------------------------------------------------
(* buy_ticket (lines 143-146).                                              *)

Digit(d) == <<"0", "1", "2", "3", "4", "5", "6", "7", "8", "9">>[d + 1]

\* str(n) of a non-negative integer, as a sequence of characters.
RECURSIVE Str(_)
Str(n) == IF n < 10 THEN <<Digit(n)>> ELSE Str(n \div 10) \o <<Digit(n % 10)>>

\* Mutant: the seat letter is written before the row.
buy_message_letter_first(flight, s) ==
    <<"P", "u", "r", "c", "h", "a", "s", "e", "d", " ">> \o flight.flight_number
        \o <<" ", "s", "e", "a", "t", " ">> \o <<s.seat>> \o Str(s.row)

\* f"Purchased {flight.flight_number} seat {seat.row}{seat.seat}" (line 146).
buy_message(flight, s) ==
    <<"P", "u", "r", "c", "h", "a", "s", "e", "d", " ">> \o flight.flight_number
        \o <<" ", "s", "e", "a", "t", " ">> \o Str(s.row) \o <<s.seat>>

IdleBuy == [phase |-> "idle", flight |-> None, seat |-> None, response |-> None]

\* One purchase; the request body has validated as FlightDetails and
\* SeatPreference.
buy_ticket(flight, s) ==
    /\ buy.phase = "idle"
    /\ buy' = [phase |-> "done", flight |-> flight, seat |-> s,
               response |-> [status |-> 200,
                             body |-> [message |-> buy_message(flight, s)]]]
    /\ UNCHANGED <<flights_web_page, usage_limits, inbox, search, seat>>

NextBuy == \E flight \in FlightDetails, s \in SeatPreference : buy_ticket(flight, s)

------------------------------------------------------------------------------
(* Initial states.                                                          *)

InitGlobals ==
    /\ usage_limits = [request_limit |-> request_limit]
    /\ seat = IdleSeat
    /\ buy = IdleBuy
    /\ search = [c \in Slots |-> IdleSearch]

\* One search request, any constraints, over the whole page.
InitSearch ==
    /\ InitGlobals
    /\ flights_web_page = WebPage
    /\ \E req \in SearchRequest :
           inbox = [c \in Slots |-> IF c = "c1" THEN req ELSE None]

SpecSearch == InitSearch /\ [][NextSearch]_vars

\* Two search requests with different constraints in flight at once, over a
\* page that lists the flights of one day to one destination.
ConcPage ==
    {f \in WebPage : f.destination = AirportList[2] /\ f.date = DateList[1]}

InitConc ==
    /\ InitGlobals
    /\ flights_web_page = ConcPage
    /\ inbox = [c \in Slots |->
                  IF c = "c1"
                  THEN [origin |-> AirportList[1], destination |-> AirportList[2],
                        date |-> DateList[1]]
                  ELSE [origin |-> AirportList[2], destination |-> AirportList[1],
                        date |-> DateList[1]]]

SpecConc == InitConc /\ [][NextSearch]_vars

\* One seat request.
InitSeat ==
    /\ InitGlobals
    /\ flights_web_page = WebPage
    /\ inbox = [c \in Slots |-> None]

SpecSeat == InitSeat /\ [][NextSeat]_vars

\* Ticket purchases.
SpecBuy == InitSeat /\ [][NextBuy]_vars

\* The service as a whole.
Init == InitSearch \/ InitConc

Next == NextSearch \/ NextSeat \/ NextBuy

Spec == Init /\ [][Next]_vars

\* Every awaited model request of a running call is eventually answered and
\* the event loop then resumes the call.
\* One search request with given constraints, over the whole page.
InitLive ==
    /\ InitGlobals
    /\ flights_web_page = WebPage
    /\ inbox = [c \in Slots |->
                  IF c = "c1"
                  THEN [origin |-> AirportList[1], destination |-> AirportList[2],
                        date |-> DateList[1]]
                  ELSE None]

LiveSearch ==
    /\ InitLive
    /\ [][NextSearch]_vars
    /\ \A c \in Slots : WF_vars(search_step(c))

------------------------------------------------------------------------------
(* Properties of the search workflow.                                       *)

Terminal == {"accepted", "exhausted"}

IsFlight(x) == x.kind = "FlightDetails"

Matches(c, f) ==
    /\ f.origin = inbox[c].origin
    /\ f.destination = inbox[c].destination
    /\ f.date = inbox[c].date

\* C1: the retry count never exceeds 4; a run whose every candidate was a
\* flight with a wrong origin is never accepted, and when it ends below the
\* call budget it has made exactly 4 retries.
C1_RetryCeiling ==
    \A c \in Slots :
        LET s == search[c]
        IN  /\ s.retries <= 4
            /\ (s.phase \in Terminal /\ s.only_wrong_origin) => s.phase = "exhausted"
            /\ (s.phase = "exhausted" /\ s.only_wrong_origin /\ s.usage < 15)
                   => s.retries = 4

C1_Witness ==
    \E c \in Slots :
        /\ search[c].phase = "exhausted"
        /\ search[c].only_wrong_origin
        /\ search[c].retries = 4
        /\ search[c].usage = 5

\* C2: every started search run eventually reaches Accepted or Exhausted.
C2_Terminates ==
    \A c \in Slots :
        (search[c].phase = "searching") ~> (search[c].phase \in Terminal)

C2_Witness ==
    \E c \in Slots :
        /\ search[c].phase \in Terminal
        /\ search[c].retries >= 1
        /\ search[c].usage > search[c].retries + 1

\* C3: the model calls of one search request (search and extraction
\* together) never number more than 15.
C3_CallBudget == \A c \in Slots : search[c].usage <= 15

\* C4: the validator accepts, returning the outcome unchanged, exactly when
\* the outcome is NoFlightFound or a flight equal to the request in origin,
\* destination and date; otherwise it signals a retry; NoFlightFound always
\* ends the run accepted.
C4_ValidatorAccepts ==
    \A c \in Slots :
        LET s == search[c]
            good == \/ s.output.kind = "NoFlightFound"
                    \/ IsFlight(s.output) /\ Matches(c, s.output)
        IN  s.output # None =>
                /\ good <=> (s.phase = "accepted" /\ s.result = s.output
                                /\ s.feedback = <<>>)
                /\ ~good => (s.feedback # <<>> /\ s.result = None)
                /\ s.output.kind = "NoFlightFound" => s.phase = "accepted"

C4_Witness ==
    \E c \in Slots :
        /\ search[c].output = NoFlightFound
        /\ search[c].phase = "accepted"
        /\ search[c].retries >= 1

Fields == <<"origin", "destination", "date">>

Label(f) ==
    CASE f = "origin" -> "Origin mismatch: "
      [] f = "destination" -> "Destination mismatch: "
      [] f = "date" -> "Date mismatch: "

\* C5: the retry feedback has one line per mismatching field, in the order
\* origin, destination, date, and no line for a matching field.
C5_FeedbackComplete ==
    \A c \in Slots :
        LET s == search[c]
            Bad(f) == s.output[f] # inbox[c][f]
            bad == SelectSeq(Fields, Bad)
        IN  IsFlight(s.output) =>
                s.feedback = [i \in 1..Len(bad) |-> Label(bad[i]) \o s.output[bad[i]]]

C5_Witness ==
    \E c \in Slots :
        LET s == search[c]
        IN  /\ IsFlight(s.output)
            /\ s.output.origin # inbox[c].origin
            /\ s.output.destination = inbox[c].destination
            /\ s.output.date # inbox[c].date
            /\ Len(s.feedback) = 2

\* C6: an accepted flight is answered 200 with that flight; NoFlightFound and
\* Exhausted are both answered 404.
C6_ResponseMapping ==
    \A c \in Slots :
        LET s == search[c]
        IN  s.phase \in Terminal =>
                IF s.phase = "accepted" /\ IsFlight(s.result)
                THEN s.response = [status |-> 200, body |-> s.result]
                ELSE s.response.status = 404

\* C10: every 200 response of the search endpoint carries a flight whose
\* origin, destination and date are those of the request.
C10_SuccessMatches ==
    \A c \in Slots :
        LET s == search[c]
        IN  (s.phase \in Terminal /\ s.response.status = 200) =>
                IsFlight(s.response.body) /\ Matches(c, s.response.body)

C10_Witness ==
    \E c \in Slots :
        /\ search[c].phase = "accepted"
        /\ search[c].response.status = 200
        /\ search[c].retries >= 1

------------------------------------------------------------------------------
(* Properties of concurrent searches, select_seat and buy_ticket.           *)

\* C9: a step of one search call changes the state of that call alone, by at
\* most one counted request, and never its constraints; the page, the usage
\* limits and the requests are never changed.
C9_NoInterference ==
    [][/\ flights_web_page' = flights_web_page
       /\ usage_limits' = usage_limits
       /\ inbox' = inbox
       /\ \A c \in Slots :
              search'[c] # search[c] =>
                  /\ \A d \in Slots \ {c} : search'[d] = search[d]
                  /\ search'[c].usage \in {search[c].usage, search[c].usage + 1}
                  /\ search[c].phase # "idle" => search'[c].deps = search[c].deps]_vars

C9_Witness ==
    /\ search["c1"].phase = "accepted"
    /\ search["c1"].response.status = 200
    /\ search["c2"].phase = "exhausted"
    /\ search["c1"].usage # search["c2"].usage
    /\ search["c1"].deps # search["c2"].deps

\* C7: a first answer whose row is outside 1..30 ends select_seat at once
\* with a 400 response, without a retry; a first answer with a row in 1..30
\* and a letter in A..F ends it with that seat as the 200 payload.
C7_SinglePass ==
    LET a == seat.attempts
    IN  (Len(a) >= 1 /\ a[1].kind = "SeatPreference") =>
            IF a[1].row \notin 1..30
            THEN /\ seat.phase = "done"
                 /\ seat.response.status = 400
                 /\ Len(a) = 1
                 /\ seat.retries = 0
            ELSE a[1].seat \in SeatLetters =>
                     /\ seat.phase = "done"
                     /\ seat.response = [status |-> 200, body |-> a[1]]

Contains(hay, needle) ==
    \E i \in 1..(Len(hay) + 1 - Len(needle)) :
        SubSeq(hay, i, i + Len(needle) - 1) = needle

\* C8: buy_ticket answers 200 with a message that contains the flight number
\* and the row immediately followed by the seat letter, and changes nothing
\* else.
C8_BuyEchoes ==
    /\ buy.phase = "done" =>
           /\ buy.response.status = 200
           /\ Contains(buy.response.body.message, buy.flight.flight_number)
           /\ Contains(buy.response.body.message, Str(buy.seat.row) \o <<buy.seat.seat>>)
    /\ search = [c \in Slots |-> IdleSearch]
    /\ seat = IdleSeat
    /\ flights_web_page = WebPage

C8_Witness ==
    /\ buy.phase = "done"
    /\ buy.flight.flight_number = <<"A", "F", "1", "2", "3">>
    /\ buy.seat = [kind |-> "SeatPreference", row |-> 1, seat |-> "A"]
    /\ Contains(buy.response.body.message, <<"A", "F", "1", "2", "3">>)
    /\ Contains(buy.response.body.message, <<"1", "A">>)

====
